---- MODULE Spec2Model ----
(***************************************************************************)
(* State-machine model of the use-stt recording / transcription lifecycle: *)
(*   AudioRecorder   (src/src/errors.ts, lines 27-134)                     *)
(*   BaseAdapter     (src/src/adapters/baseAdapter.ts)                     *)
(*   WhisperAdapter  (src/unnamed/part_007, lines 560-606)                 *)
(*   useFFmpeg       (src/unnamed/part_003)                                *)
(*   useSTT          (src/src/hooks/useSTT.ts, variant "plain", and        *)
(*                    src/examples/basic/components/ClientWhisperExample   *)
(*                    .tsx lines 168-399, variant "disableable")           *)
(*                                                                         *)
(* One action is one task of the JavaScript event loop: a handler runs to  *)
(* its first real suspension (getUserMedia, the transcoder, the            *)
(* transcription function, the engine load), together with the promise     *)
(* continuations (microtasks) and the React commit (effect cleanups and    *)
(* effects) that follow it before the next task can run.                   *)
(*                                                                         *)
(* Thrown values are modelled by their message; NonError stands for a      *)
(* rejection value that is not an instance of Error.  AudioRecorder.stop() *)
(* is used by BaseAdapter as an awaitable (await ... / .catch(...)); its   *)
(* body is synchronous, so the awaiting continuation runs in the same task *)
(* and before the MediaRecorder's queued dataavailable event.              *)
(*                                                                         *)
(* The code reads the captured audio only through `size > 0` / `size ===   *)
(* 0`, so a recording is modelled by whether it is "empty" or "nonempty".  *)
(*                                                                         *)
(* src/src/audio/recorder.ts is an AudioRecorder that records in time      *)
(* slices and buffers the chunks; specification ChunkSpec models it, with  *)
(* the blobs it hands to BaseAdapter's onDataAvailable, on its own.        *)
(*                                                                         *)
(* convertAudioToMono (src/src/utils/audioConverter.ts, and the bundled    *)
(* copy in src/unnamed/part_000) is a function of the blob and the engine; *)
(* specification ConvSpec runs one call of it, one engine call per step.   *)
(***************************************************************************)
EXTENDS Integers, Sequences, FiniteSets, TLC

\* ---------------------------------------------------------------- bounds
MaxSessions == 2
MaxAdapters == 4
MaxChunks == 5

\* ------------------------------------------------------------- constants
NoError == "null"
NonError == "<non-Error>"
Transcripts == {"hello world"}
DeviceErrors == {"Permission denied"}
TranscoderErrors == {"conversion failed"}
TranscribeErrors == {"boom", NonError}
EngineErrors == {"Failed to load FFmpeg"}
MimePreference == <<"audio/webm", "audio/mp4", "audio/ogg", "audio/wav">>
RequestedMime == "audio/webm"
SupportedSets == {{"audio/webm", "audio/mp4"}, {}}
NoMimeMessage == "No supported audio MIME types found"
DisabledMessage == "STT is disabled."
NotLoadedMessage == "FFmpeg not loaded"
NotInitializedPlain == "STT adapter not initialized"
NotInitializedDisableable == "STT adapter not initialized."
NoStart == [outcome |-> "none", error |-> NoError]
ConvertedType == "audio/webm;codecs=opus"
StopErrors == {"InvalidStateError"}

VARIABLES variant, mounted, disabled, optDisabled, hook, ff, adapterRef,
          adapters, recorders, effDeps, chunked, conv

\* chunked is the time-sliced AudioRecorder of src/src/audio/recorder.ts
\* (specification ChunkSpec) and conv one call of convertAudioToMono
\* (specification ConvSpec); the lifecycle specification Spec leaves both alone.
lifecycleVars == <<variant, mounted, disabled, optDisabled, hook, ff, adapterRef,
                   adapters, recorders, effDeps>>

vars == <<variant, mounted, disabled, optDisabled, hook, ff, adapterRef,
          adapters, recorders, effDeps, chunked, conv>>

AdapterIds == 1..MaxAdapters
SessionIds == 1..MaxSessions

\* ------------------------------------------------------------ the world
\* The state a step starts from, as one record the operators below thread
\* through the statements of the code.  Two fields are no state of the
\* program: lastStart is what the step returns to the caller of
\* startRecording(), the settlement of its promise (NoStart when the step
\* settles none), lastStop is the same for stopRecording(), and over says
\* that the step ran out of adapter identities.
World == [mounted |-> mounted, disabled |-> disabled, optDisabled |-> optDisabled,
          hook |-> hook, ff |-> ff, adapterRef |-> adapterRef,
          adapters |-> adapters, recorders |-> recorders, effDeps |-> effDeps,
          lastStart |-> NoStart, lastStop |-> NoStart, over |-> FALSE]

Apply(w) ==
    /\ ~w.over
    /\ mounted' = w.mounted
    /\ disabled' = w.disabled
    /\ optDisabled' = w.optDisabled
    /\ hook' = w.hook
    /\ ff' = w.ff
    /\ adapterRef' = w.adapterRef
    /\ adapters' = w.adapters
    /\ recorders' = w.recorders
    /\ effDeps' = w.effDeps
    /\ UNCHANGED <<variant, chunked, conv>>

NewRecorder == [created |-> FALSE, owner |-> 0, acquiring |-> FALSE, mr |-> "null",
                held |-> FALSE, mime |-> "", size |-> "empty", dataPending |-> FALSE,
                proc |-> "none", stopVia |-> "none", thrown |-> "",
                sent |-> "", log |-> <<>>]

\* live: constructed and not yet aborted or dropped by the controller.
NewAdapter == [created |-> FALSE, recorder |-> 0, isMounted |-> FALSE,
               live |-> FALSE]

InitialHook == [isRecording |-> FALSE, isProcessing |-> FALSE, transcript |-> "",
                error |-> NoError, isInitialized |-> FALSE, isStopping |-> FALSE]

InitialFFmpeg == [loaded |-> FALSE, loading |-> FALSE, error |-> NoError,
                  ffmpeg |-> FALSE, inFlight |-> 0]

NoDeps == [loaded |-> FALSE, ffmpeg |-> FALSE, ffmpegError |-> NoError,
           loading |-> FALSE, disabled |-> FALSE, isInitialized |-> FALSE,
           ran |-> FALSE]

\* A React state setter: updates of an unmounted component are dropped.
SetState(w, field, value) ==
    IF w.mounted THEN [w EXCEPT !.hook = [@ EXCEPT ![field] = value]] ELSE w

SetFF(w, field, value) ==
    IF w.mounted THEN [w EXCEPT !.ff = [@ EXCEPT ![field] = value]] ELSE w

Log(w, r, event) ==
    [w EXCEPT !.recorders[r].log = Append(@, event)]

\* -------------------------------------------- useSTT: adapter callbacks
\* Mutant of CallbackActive: the callbacks never check isMounted or disabled.
CallbackActiveUnchecked(w, a) == TRUE

\* `if (!isMounted) return` and, in the disableable variant,
\* `if (!isMounted || optionsRef.current.disabled) return`.
CallbackActive(w, a) ==
    /\ w.adapters[a].isMounted
    /\ ~(variant = "disableable" /\ w.optDisabled)

onResult(w, a, result) ==
    IF ~CallbackActive(w, a) THEN w
    ELSE LET w1 == SetState(w, "transcript", result.transcript)
         IN IF result.isFinal THEN SetState(w1, "isProcessing", FALSE) ELSE w1

\* Mutant of onError: isProcessing is not reset.
onErrorKeepsProcessing(w, a, err) ==
    IF ~CallbackActive(w, a) THEN w
    ELSE SetState(SetState(w, "error", err), "isRecording", FALSE)

onError(w, a, err) ==
    IF ~CallbackActive(w, a) THEN w
    ELSE SetState(SetState(SetState(w, "error", err),
                           "isProcessing", FALSE), "isRecording", FALSE)

\* Mutant of onStart: a new session clears the transcript.
onStartClearsTranscript(w, a) ==
    IF ~CallbackActive(w, a) THEN w
    ELSE SetState(SetState(SetState(SetState(w, "error", NoError),
                           "isRecording", TRUE), "isProcessing", TRUE),
                  "transcript", "")

onStart(w, a) ==
    IF ~CallbackActive(w, a) THEN w
    ELSE SetState(SetState(SetState(w, "error", NoError),
                           "isRecording", TRUE), "isProcessing", TRUE)

onEnd(w, a) ==
    IF ~CallbackActive(w, a) THEN w
    ELSE SetState(SetState(w, "isRecording", FALSE), "isStopping", FALSE)

\* ---------------------------------- BaseAdapter: the four callback slots
\* The session argument r only says in whose log the call is recorded.
resultCallback(w, a, r, result) == Log(onResult(w, a, result), r, "onResult")

errorCallback(w, a, r, err) == Log(onError(w, a, err), r, "onError")

startCallback(w, a, r) == Log(onStart(w, a), r, "onStart")

endCallback(w, a, r) == Log(onEnd(w, a), r, "onEnd")

\* ------------------------------------------------------- AudioRecorder
\* getSupportedMimeType: the requested type when supported, else the first
\* supported type of the preference list, else "" (the method throws).
FirstSupported(supported, i) ==
    LET Idx == {j \in i..Len(MimePreference) : MimePreference[j] \in supported}
    IN IF Idx = {} THEN ""
       ELSE MimePreference[CHOOSE j \in Idx : \A k \in Idx : j <= k]

getSupportedMimeType(supported) ==
    IF RequestedMime \in supported THEN RequestedMime
    ELSE FirstSupported(supported, 1)

\* AudioRecorder.stop(): nothing without a MediaRecorder; otherwise the
\* MediaRecorder goes inactive, queues its dataavailable event with the
\* complete recording, and every track of the stream is stopped.
RecorderStop(w, r, via) ==
    LET rec == w.recorders[r]
    IN IF rec.mr = "null" THEN w
       ELSE [w EXCEPT !.recorders[r] =
                [rec EXCEPT !.dataPending = (rec.mr # "inactive") \/ @,
                            !.mr = "inactive",
                            !.held = FALSE,
                            !.stopVia = IF rec.mr # "inactive" THEN via ELSE @]]

\* Mutant of RecorderPause: the MediaRecorder is paused whatever its state.
RecorderPauseUnguarded(w, r) == [w EXCEPT !.recorders[r].mr = "paused"]

RecorderPause(w, r) ==
    IF w.recorders[r].mr = "recording"
    THEN [w EXCEPT !.recorders[r].mr = "paused"] ELSE w

RecorderResume(w, r) ==
    IF w.recorders[r].mr = "paused"
    THEN [w EXCEPT !.recorders[r].mr = "recording"] ELSE w

\* ---------------------------------------------------------- BaseAdapter
WrapUnknown(err) == IF err = NonError THEN "Unknown error" ELSE err

\* Mutant of handleError: the adapter keeps its recorder.
handleErrorKeepsRecorder(w, a, r, error) ==
    endCallback(errorCallback(w, a, r, WrapUnknown(error)), a, r)

\* Mutant of handleError: endCallback fires before errorCallback.
handleErrorEndFirst(w, a, r, error) ==
    LET err == WrapUnknown(error)
        w1 == endCallback(w, a, r)
        w2 == errorCallback(w1, a, r, err)
        cur == w2.adapters[a].recorder
    IN IF cur # 0
       THEN [RecorderStop(w2, cur, "error") EXCEPT !.adapters[a].recorder = 0]
       ELSE w2

\* handleError: errorCallback, endCallback, stop and drop the adapter's
\* current recorder, rethrow (the callers below propagate the throw).
handleError(w, a, r, error) ==
    LET err == WrapUnknown(error)
        w1 == errorCallback(w, a, r, err)
        w2 == endCallback(w1, a, r)
        cur == w2.adapters[a].recorder
    IN IF cur # 0
       THEN [RecorderStop(w2, cur, "error") EXCEPT !.adapters[a].recorder = 0]
       ELSE w2

FreeSessions(w) == {r \in SessionIds : ~w.recorders[r].created}

NextSession(w) == CHOOSE r \in FreeSessions(w) : \A q \in FreeSessions(w) : r <= q

\* BaseAdapter.start() up to `await this.recorder.start()`, which suspends
\* in getUserMedia: a new AudioRecorder replaces this.recorder, then
\* startCallback fires, then the recorder starts acquiring the device.
AdapterStart(w, a) ==
    LET r == NextSession(w)
        w1 == [w EXCEPT !.recorders[r] = [NewRecorder EXCEPT !.created = TRUE,
                                                             !.owner = a],
                        !.adapters[a].recorder = r]
        w2 == startCallback(w1, a, r)
    IN [w2 EXCEPT !.recorders[r].acquiring = TRUE]

\* Mutant of AdapterStop: the reference to the recorder is kept.
AdapterStopKeepsRecorder(w, a) ==
    LET cur == w.adapters[a].recorder
    IN IF cur = 0 THEN w ELSE RecorderStop(w, cur, "stop")

\* BaseAdapter.stop(): nothing without a recorder; otherwise the reference
\* is cleared first and the recorder stopped.
AdapterStop(w, a) ==
    LET cur == w.adapters[a].recorder
    IN IF cur = 0 THEN w
       ELSE RecorderStop([w EXCEPT !.adapters[a].recorder = 0], cur, "stop")

AdapterPause(w, a) ==
    IF w.adapters[a].recorder # 0 THEN RecorderPause(w, w.adapters[a].recorder) ELSE w

AdapterResume(w, a) ==
    IF w.adapters[a].recorder # 0 THEN RecorderResume(w, w.adapters[a].recorder) ELSE w

abort(w, a) ==
    LET cur == w.adapters[a].recorder
        w1 == [w EXCEPT !.adapters[a].live = FALSE]
    IN IF cur = 0 THEN w1
       ELSE [RecorderStop(w1, cur, "abort") EXCEPT !.adapters[a].recorder = 0]

\* ------------------------------------------------------- WhisperAdapter
\* processAudio: an empty blob short-circuits to an empty final result.
EmptyResult == [transcript |-> "", isFinal |-> TRUE]

ShortCircuits(size) == size = "empty"

\* Mutant of Rewrap: the original message is lost.
RewrapGeneric(error) == "Transcription failed"

\* catch of processAudio: new BaseError(error instanceof Error ?
\* error.message : 'Transcription failed')
Rewrap(error) == IF error = NonError THEN "Transcription failed" ELSE error

TranscribeResult(t) == [transcript |-> t, isFinal |-> TRUE]

\* onDataAvailable of BaseAdapter.start up to the first suspension of
\* processAudio: the short circuit delivers the result and the end at once,
\* otherwise the transcoder is invoked.
onDataAvailable(w, a, r) ==
    IF ShortCircuits(w.recorders[r].size)
    THEN [endCallback(resultCallback(w, a, r, EmptyResult), a, r)
            EXCEPT !.recorders[r].proc = "settled"]
    ELSE [Log(w, r, "transcoder") EXCEPT !.recorders[r].proc = "transcoding"]

\* MediaRecorder.ondataavailable as set by AudioRecorder.start.
ondataavailable(w, r) ==
    LET w1 == [w EXCEPT !.recorders[r].dataPending = FALSE]
    IN IF w.recorders[r].size # "empty"
       THEN onDataAvailable(w1, w.recorders[r].owner, r)
       ELSE w1

\* ------------------------------------------------------------ useFFmpeg
\* load() up to `await ffmpeg.load(...)`.
load(w) ==
    LET w1 == SetFF(SetFF(w, "loading", TRUE), "error", NoError)
    IN [w1 EXCEPT !.ff.ffmpeg = TRUE, !.ff.inFlight = @ + 1]

\* load() after the await: setLoaded(true) or setError(err), then the
\* finally block's setLoading(false).
loadSettled(w, outcome) ==
    LET w1 == IF outcome = "ok" THEN SetFF(w, "loaded", TRUE)
              ELSE SetFF(w, "error", outcome)
    IN [SetFF(w1, "loading", FALSE) EXCEPT !.ff.inFlight = @ - 1]

\* ------------------------------------------------ useSTT: the effects
\* The values a render closes over, as far as the effect dependency lists
\* and the effect bodies read them.
Deps(w) == [loaded |-> w.ff.loaded, ffmpeg |-> w.ff.ffmpeg,
            ffmpegError |-> w.ff.error, loading |-> w.ff.loading,
            disabled |-> w.disabled, isInitialized |-> w.hook.isInitialized,
            ran |-> TRUE]

\* Mutant of InitDeps: `disabled` is not a dependency of the initialization
\* effect.
InitDepsNoDisabled(d) ==
    IF variant = "plain" THEN <<d.ran, d.loaded, d.ffmpeg, d.ffmpegError>>
    ELSE <<d.ran, d.loaded, d.ffmpeg, d.ffmpegError, d.isInitialized>>

InitDeps(d) ==
    IF variant = "plain" THEN <<d.ran, d.loaded, d.ffmpeg, d.ffmpegError>>
    ELSE <<d.ran, d.loaded, d.ffmpeg, d.ffmpegError, d.disabled, d.isInitialized>>

DisabledDeps(d) == <<d.ran, d.disabled, d.loaded, d.ffmpeg, d.isInitialized>>

LoadDeps(d) ==
    IF variant = "plain" THEN <<d.ran>>
    ELSE <<d.ran, d.disabled, d.loaded, d.loading, d.ffmpegError>>

FreeAdapters(w) == {a \in AdapterIds : ~w.adapters[a].created}

\* new WhisperAdapter({...callbacks}); adapterRef.current = adapter
CreateAdapter(w) ==
    IF FreeAdapters(w) = {} THEN [w EXCEPT !.over = TRUE]
    ELSE LET a == CHOOSE x \in FreeAdapters(w) : \A y \in FreeAdapters(w) : x <= y
         IN [w EXCEPT !.adapters[a] = [created |-> TRUE, recorder |-> 0,
                                       isMounted |-> TRUE, live |-> TRUE],
                      !.adapterRef = a]

\* Mutant of initializeAdapterPlain: the adapter is built before the engine
\* has loaded.
initializeAdapterPlainEager(w, c) ==
    IF w.adapterRef = 0
    THEN SetState(CreateAdapter(w), "isInitialized", TRUE)
    ELSE w

initializeAdapterPlain(w, c) ==
    IF ~c.loaded \/ ~c.ffmpeg
    THEN IF c.ffmpegError # NoError
         THEN SetState(SetState(w, "error", c.ffmpegError), "isInitialized", FALSE)
         ELSE w
    ELSE IF w.adapterRef = 0
         THEN SetState(CreateAdapter(w), "isInitialized", TRUE)
         ELSE w

initializeAdapterDisableable(w, c) ==
    IF c.disabled \/ ~c.loaded \/ ~c.ffmpeg
    THEN IF c.ffmpegError # NoError /\ ~c.disabled
         THEN SetState(w, "error", c.ffmpegError)
         ELSE w
    ELSE IF w.adapterRef # 0 /\ c.isInitialized
         THEN w
         ELSE SetState(SetState(CreateAdapter(w), "isInitialized", TRUE),
                       "error", NoError)

initializeAdapter(w, c) ==
    IF variant = "plain" THEN initializeAdapterPlain(w, c)
    ELSE initializeAdapterDisableable(w, c)

\* `isMounted = false` of the effect run being cleaned up: the callbacks of
\* the adapter built by that run go quiet.
Unmounted(w) ==
    [w EXCEPT !.adapters = [a \in AdapterIds |-> [@[a] EXCEPT !.isMounted = FALSE]]]

CleanupPlain(w) ==
    LET w1 == Unmounted(w)
    IN IF w1.adapterRef # 0
       THEN SetState([abort(w1, w1.adapterRef) EXCEPT !.adapterRef = 0],
                     "isInitialized", FALSE)
       ELSE w1

\* Mutant of CleanupDisableable: the reference is dropped, abort() is not called.
CleanupDisableableNoAbort(w) == [Unmounted(w) EXCEPT !.adapterRef = 0]

CleanupDisableable(w) ==
    LET w1 == Unmounted(w)
    IN IF w1.adapterRef # 0 /\ ~w1.optDisabled
       THEN [abort(w1, w1.adapterRef) EXCEPT !.adapterRef = 0]
       ELSE IF w1.adapterRef # 0 /\ w1.optDisabled
            THEN [w1 EXCEPT !.adapters[w1.adapterRef].live = FALSE,
                            !.adapterRef = 0]
            ELSE w1

Cleanup(w) == IF variant = "plain" THEN CleanupPlain(w) ELSE CleanupDisableable(w)

\* Mutant of DisabledEffect: isRecording is not reset.
DisabledEffectKeepsRecording(w, c) ==
    IF c.disabled
    THEN LET w1 == IF w.adapterRef # 0
                   THEN [abort(w, w.adapterRef) EXCEPT !.adapterRef = 0]
                   ELSE w
         IN SetState(SetState(SetState(w1, "isProcessing", FALSE),
                "isStopping", FALSE), "isInitialized", FALSE)
    ELSE w

\* The `disabled` effect of the disableable variant.
DisabledEffect(w, c) ==
    IF c.disabled
    THEN LET w1 == IF w.adapterRef # 0
                   THEN [abort(w, w.adapterRef) EXCEPT !.adapterRef = 0]
                   ELSE w
         IN SetState(SetState(SetState(SetState(w1, "isRecording", FALSE),
                "isProcessing", FALSE), "isStopping", FALSE), "isInitialized", FALSE)
    ELSE w

LoadEffect(w, c) ==
    IF variant = "plain" THEN load(w)
    ELSE IF c.disabled THEN w
         ELSE IF ~c.loaded /\ ~c.loading /\ c.ffmpegError = NoError THEN load(w)
              ELSE w

\* optionsRef.current = options
OptionsEffect(w) == [w EXCEPT !.optDisabled = w.disabled]

\* The effects of one commit, in declaration order, for the render closure c
\* and the dependencies `old` of the previous run.
RunEffects(w, c, old) ==
    LET w1 == OptionsEffect(w)
        w2 == IF variant = "disableable" /\ DisabledDeps(c) # DisabledDeps(old)
              THEN DisabledEffect(w1, c) ELSE w1
        w3 == IF InitDeps(c) # InitDeps(old) THEN initializeAdapter(w2, c) ELSE w2
    IN IF LoadDeps(c) # LoadDeps(old) THEN LoadEffect(w3, c) ELSE w3

\* One render and commit: the cleanups of the effects whose dependencies
\* changed run first, then the effects.
Flush(w) ==
    LET c == Deps(w)
        old == w.effDeps
        w1 == IF old.ran /\ InitDeps(c) # InitDeps(old) THEN Cleanup(w) ELSE w
    IN [RunEffects(w1, c, old) EXCEPT !.effDeps = c]

\* Renders repeat until no effect changes a dependency any more.
Commit(w) == Flush(Flush(Flush(Flush(w))))

\* Development-mode double invocation on mount: every effect is cleaned up
\* and run again with the closure of the same render.
StrictReplay(w) ==
    RunEffects(Cleanup(w), w.effDeps, NoDeps)

\* ------------------------------------------- useSTT: control operations
\* Mutant of GuardErrorPlain: the not-loaded check comes before the load error.
GuardErrorPlainLoadedFirst(w) ==
    IF ~w.ff.loaded \/ ~w.ff.ffmpeg THEN NotLoadedMessage
    ELSE IF w.ff.error # NoError THEN w.ff.error
    ELSE IF w.adapterRef = 0 \/ ~w.hook.isInitialized THEN NotInitializedPlain
    ELSE NoError

\* Mutant of GuardErrorDisableable: the load error comes before the disabled check.
GuardErrorDisableableErrorFirst(w) ==
    IF w.ff.error # NoError THEN w.ff.error
    ELSE IF w.optDisabled THEN DisabledMessage
    ELSE IF ~w.ff.loaded \/ ~w.ff.ffmpeg THEN NotLoadedMessage
    ELSE IF ~w.hook.isInitialized \/ w.adapterRef = 0 THEN NotInitializedDisableable
    ELSE NoError

\* The guards of startRecording in the order the code checks them; NoError
\* when every guard passes.
GuardErrorPlain(w) ==
    IF w.ff.error # NoError THEN w.ff.error
    ELSE IF ~w.ff.loaded \/ ~w.ff.ffmpeg THEN NotLoadedMessage
    ELSE IF w.adapterRef = 0 \/ ~w.hook.isInitialized THEN NotInitializedPlain
    ELSE NoError

GuardErrorDisableable(w) ==
    IF w.optDisabled THEN DisabledMessage
    ELSE IF w.ff.error # NoError THEN w.ff.error
    ELSE IF ~w.ff.loaded \/ ~w.ff.ffmpeg THEN NotLoadedMessage
    ELSE IF ~w.hook.isInitialized \/ w.adapterRef = 0 THEN NotInitializedDisableable
    ELSE NoError

GuardError(w) ==
    IF variant = "plain" THEN GuardErrorPlain(w) ELSE GuardErrorDisableable(w)

Rejected(w, err) == [w EXCEPT !.lastStart = [outcome |-> "rejected", error |-> err]]

\* The catch block of startRecording.
StartCatch(w, err) ==
    SetState(SetState(SetState(w, "isRecording", FALSE),
                      "isProcessing", FALSE), "error", WrapUnknown(err))

\* Mutant of GuardRejection: the rejection also clears the transcript.
GuardRejectionClearing(w, err) ==
    [w EXCEPT !.hook.transcript = "",
              !.lastStart = [outcome |-> "rejected", error |-> err]]

\* A guard rejection: in the plain variant the guards throw inside the try
\* block, so the catch block runs; in the disableable variant they throw
\* before it.
GuardRejection(w, err) ==
    IF variant = "plain" THEN Rejected(StartCatch(w, err), err)
    ELSE Rejected(w, err)

\* A rejection of adapter.start(), caught by startRecording.
StartRejection(w, err) ==
    IF variant = "plain" \/ ~w.optDisabled THEN Rejected(StartCatch(w, err), err)
    ELSE Rejected(w, err)

startRecording(w) ==
    IF GuardError(w) # NoError THEN GuardRejection(w, GuardError(w))
    ELSE AdapterStart(w, w.adapterRef)

stopRecording(w) ==
    IF w.adapterRef = 0 THEN w
    ELSE LET w1 == AdapterStop(SetState(w, "isStopping", TRUE), w.adapterRef)
         IN IF variant = "disableable" /\ w1.optDisabled
            THEN SetState(SetState(SetState(w1, "isStopping", FALSE),
                                   "isRecording", FALSE), "isProcessing", FALSE)
            ELSE w1

\* The catch block of stopRecording.
StopCatch(w, err) ==
    LET w1 == IF variant = "disableable" /\ w.optDisabled THEN w
              ELSE SetState(w, "error", WrapUnknown(err))
    IN SetState(SetState(w1, "isStopping", FALSE), "isProcessing", FALSE)

\* BaseAdapter.stop() when MediaRecorder.stop() throws: the reference is
\* already cleared, the catch block calls handleError, which rethrows.
AdapterStopFailed(w, a, error) ==
    handleError([w EXCEPT !.adapters[a].recorder = 0], a,
                w.adapters[a].recorder, error)

\* stopRecording() when the MediaRecorder of the adapter's recorder throws
\* from stop(): the rejection of adapter.stop() reaches the catch block,
\* which sets the state and rethrows.
stopRecordingFailed(w, error) ==
    LET w1 == AdapterStopFailed(SetState(w, "isStopping", TRUE), w.adapterRef, error)
    IN [StopCatch(w1, error) EXCEPT
            !.lastStop = [outcome |-> "rejected", error |-> WrapUnknown(error)]]

pauseRecording(w) ==
    IF (variant = "disableable" /\ w.optDisabled) \/ w.adapterRef = 0 THEN w
    ELSE AdapterPause(w, w.adapterRef)

resumeRecording(w) ==
    IF (variant = "disableable" /\ w.optDisabled) \/ w.adapterRef = 0 THEN w
    ELSE AdapterResume(w, w.adapterRef)

\* The rest of AudioRecorder.start / BaseAdapter.start / startRecording once
\* getUserMedia has failed, or getSupportedMimeType has thrown: the
\* recorder's catch reports through options.onError (= handleError, which
\* rethrows), BaseAdapter.start's catch calls handleError again, and
\* startRecording's catch receives the rethrown error.
StartFailed(w, r, error) ==
    LET a == w.recorders[r].owner
        w1 == handleError(w, a, r, error)
        w2 == handleError(w1, a, r, WrapUnknown(error))
    IN StartRejection(w2, WrapUnknown(error))

\* getUserMedia resolved with a stream: the MIME type is negotiated, the
\* MediaRecorder is created on the stream and started.
StreamAcquired(w, r, supported) ==
    LET mime == getSupportedMimeType(supported)
        w1 == [w EXCEPT !.recorders[r].acquiring = FALSE,
                        !.recorders[r].held = TRUE]
    IN IF mime = ""
       THEN StartFailed([w1 EXCEPT !.recorders[r].thrown = NoMimeMessage],
                        r, NoMimeMessage)
       ELSE [w1 EXCEPT !.recorders[r].mr = "recording",
                       !.recorders[r].mime = mime,
                       !.lastStart = [outcome |-> "resolved", error |-> NoError]]

StreamDenied(w, r, error) ==
    StartFailed([w EXCEPT !.recorders[r].acquiring = FALSE,
                          !.recorders[r].thrown = error], r, error)

\* Mutant of transcoderSettled: a failed conversion is ignored and the
\* recorded blob goes to the transcription function.
transcoderSettledContinues(w, r, outcome) ==
    [Log(w, r, "transcribe") EXCEPT
        !.recorders[r].proc = "transcribing",
        !.recorders[r].sent = IF outcome = "ok" THEN ConvertedType
                              ELSE w.recorders[r].mime,
        !.recorders[r].thrown = IF outcome = "ok" THEN @ ELSE outcome]

\* The continuation of processAudio after convertAudioToMono settled; sent
\* is the type of the blob handed to options.transcribe (convertedBlob).
transcoderSettled(w, r, outcome) ==
    IF outcome = "ok"
    THEN [Log(w, r, "transcribe") EXCEPT !.recorders[r].proc = "transcribing",
                                         !.recorders[r].sent = ConvertedType]
    ELSE [handleError(w, w.recorders[r].owner, r, Rewrap(outcome))
            EXCEPT !.recorders[r].proc = "settled",
                   !.recorders[r].thrown = outcome]

\* The continuation of processAudio and of onDataAvailable after
\* options.transcribe settled.
transcribeSettled(w, r, outcome) ==
    LET a == w.recorders[r].owner
    IN IF outcome \in Transcripts
       THEN [endCallback(resultCallback(w, a, r, TranscribeResult(outcome)), a, r)
               EXCEPT !.recorders[r].proc = "settled"]
       ELSE [handleError(w, a, r, Rewrap(outcome))
               EXCEPT !.recorders[r].proc = "settled",
                      !.recorders[r].thrown = outcome]

\* startRecording() can be called in the current state (the StartRecording
\* action is enabled), and the world that call leaves behind.
StartEnabled ==
    mounted /\ (GuardError(World) = NoError => FreeSessions(World) # {})

AfterStart == startRecording(World)

\* What a startRecording() call made in the current state settles with at
\* once: a guard rejection, or nothing yet (the call suspends in
\* adapter.start()).
StartOutcome == AfterStart.lastStart

\* stopRecording() can be called in the current state on a session with a
\* MediaRecorder, and the world the call leaves behind when that
\* MediaRecorder's stop() throws error.  The platform raises no such error
\* on a recorder the model can reach (the adapter drops a recorder before it
\* stops it), so the failing call is no action of Next; the catch blocks of
\* BaseAdapter.stop and stopRecording are evaluated on every reachable state.
StopCanFail ==
    /\ mounted /\ adapterRef # 0
    /\ adapters[adapterRef].recorder # 0
    /\ recorders[adapters[adapterRef].recorder].mr \in {"recording", "paused"}

AfterStopFailure(error) == stopRecordingFailed(World, error)

\* The values useSTT returns (the disableable variant masks them while
\* optionsRef.current.disabled is set).
ExposedIsProcessing ==
    IF variant = "disableable" /\ optDisabled THEN FALSE
    ELSE hook.isProcessing \/ ff.loading

ExposedError ==
    IF variant = "disableable" /\ optDisabled THEN NoError
    ELSE IF hook.error # NoError THEN hook.error ELSE ff.error

ExposedIsInitialized ==
    IF variant = "disableable" /\ optDisabled THEN FALSE ELSE hook.isInitialized

\* ------------------------- AudioRecorder with time slices (recorder.ts)
\* A blob is the sequence of the bytes it holds; the k-th chunk the
\* MediaRecorder emits holds the one byte k, or nothing.
\* mr: state of the MediaRecorder; captured: the chunks it has emitted or
\* queued; audioChunks: the recorder's buffer; pending: the final chunk
\* queued by MediaRecorder.stop(); delivered: the blobs handed to
\* options.onDataAvailable (BaseAdapter passes each to processAudio);
\* returned: what AudioRecorder.stop() returned (BaseAdapter.stop awaits the
\* call and drops the value).
NewChunked == [mr |-> "null", captured |-> <<>>, audioChunks |-> <<>>,
               pending |-> FALSE, delivered |-> <<>>, returned |-> <<"none">>]

RECURSIVE Concat(_)
Concat(blobs) ==
    IF blobs = <<>> THEN <<>> ELSE Head(blobs) \o Concat(Tail(blobs))

\* new Blob(this.audioChunks, {type})
NewBlob(parts) == Concat(parts)

\* mediaRecorder.ondataavailable
ChunkDataAvailable(c, data) ==
    IF Len(data) > 0
    THEN [c EXCEPT !.audioChunks = Append(@, data),
                   !.delivered = Append(@, data)]
    ELSE c

\* AudioRecorder.stop(): the MediaRecorder stops and queues its last chunk,
\* the blob of the buffered chunks is built and returned, the buffer reset.
ChunkStop(c, last) ==
    IF c.mr = "null" THEN [c EXCEPT !.returned = <<"null">>]
    ELSE [c EXCEPT !.mr = "inactive",
                   !.captured = Append(@, last),
                   !.pending = TRUE,
                   !.returned = <<NewBlob(c.audioChunks)>>,
                   !.audioChunks = <<>>]

\* ------------------------------------------------------- audioConverter
\* convertAudioToMono exists twice: with a body of its own (the bundled
\* utils/audioConverter of src/unnamed/part_000) and as a call of
\* convertAudioToWebM (src/src/utils/audioConverter.ts).
Implementations == {"mono", "webm"}

\* A blob's type, as the list of its ';'-separated parts.
BlobTypes == {<<"audio/webm">>, <<"audio/webm", "codecs=opus">>, <<"audio/mp4">>,
              <<"audio/wav">>, <<"audio/ogg">>, <<"audio/mpeg">>, <<"audio/invalid">>}

SUPPORTED_INPUT_FORMATS == {"audio/webm", "audio/mp4", "audio/wav", "audio/ogg", "audio/mpeg"}

\* What a rejected engine call rejects with.
EngineCallErrors == {"FFmpeg error"}

UnsupportedMessage == "Unsupported audio format"

\* One call of convertAudioToMono: the implementation, the blob's type, how
\* far the call has got, the files in the engine's file system, the engine
\* calls made so far and what the call settled with.
NewConversion(impl, type) ==
    [impl |-> impl, type |-> type, pc |-> "called", files |-> {},
     calls |-> <<>>, result |-> <<>>]

\* const mainType = blob.type.split(';')[0]
validateAudioFormat(type) == Head(type) \in SUPPORTED_INPUT_FORMATS

EngineCall(op, file, args) == [op |-> op, file |-> file, args |-> args]

\* The argument list of ffmpeg.exec; convertAudioToMono passes no config, so
\* convertAudioToWebM uses its defaults and no filter.
ConversionArgs(impl) ==
    IF impl = "mono"
    THEN <<"-i", "input", "-ar", "16000", "-ac", "1", "-c:a", "pcm_s16le",
           "output.wav">>
    ELSE <<"-i", "input", "-ar", "16000", "-ac", "1", "-c:a", "libopus",
           "-b:a", "24k", "-compression_level", "10", "output.webm">>

OutputFile(impl) == IF impl = "mono" THEN "output.wav" ELSE "output.webm"

\* new Blob([data], { type: ... })
OutputType(impl) ==
    IF impl = "mono" THEN <<"audio/wav">> ELSE <<"audio/webm", "codecs=opus">>

\* An engine call that rejects: the catch block logs and rethrows.
CallRejected(c, call, error) ==
    [c EXCEPT !.calls = Append(@, call), !.pc = "rejected", !.result = <<error>>]

writeFile(c, name) ==
    [c EXCEPT !.calls = Append(@, EngineCall("writeFile", name, <<>>)),
              !.files = @ \cup {name}]

\* ffmpeg.exec(args): the engine writes the file named by the last argument.
exec(c, args) ==
    [c EXCEPT !.calls = Append(@, EngineCall("exec", "", args)),
              !.files = @ \cup {args[Len(args)]}]

readFile(c, name) ==
    [c EXCEPT !.calls = Append(@, EngineCall("readFile", name, <<>>))]

deleteFile(c, name) ==
    [c EXCEPT !.calls = Append(@, EngineCall("deleteFile", name, <<>>)),
              !.files = @ \ {name}]

\* ----------------------------------------------------------------- Init
Init ==
    /\ variant \in {"plain", "disableable"}
    /\ mounted = FALSE
    /\ disabled \in IF variant = "plain" THEN {FALSE} ELSE BOOLEAN
    /\ optDisabled = disabled
    /\ hook = InitialHook
    /\ ff = InitialFFmpeg
    /\ adapterRef = 0
    /\ adapters = [a \in AdapterIds |-> NewAdapter]
    /\ recorders = [r \in SessionIds |-> NewRecorder]
    /\ effDeps = NoDeps
    /\ chunked = NewChunked
    /\ conv = NewConversion("webm", <<"audio/webm">>)

\* -------------------------------------------------------------- actions
Mount(strict) ==
    /\ ~mounted /\ ~effDeps.ran
    /\ LET w1 == Flush([World EXCEPT !.mounted = TRUE])
       IN Apply(Commit(IF strict THEN StrictReplay(w1) ELSE w1))

\* After the last cleanup the component is gone: its state, its refs and its
\* options no longer exist (later setter calls are dropped), so the model
\* keeps them at their initial values; loads still in flight settle into
\* dropped updates and are no longer followed.
Destroyed(w) ==
    [w EXCEPT !.hook = InitialHook, !.ff = InitialFFmpeg, !.adapterRef = 0,
              !.disabled = FALSE, !.optDisabled = FALSE,
              !.effDeps = [NoDeps EXCEPT !.ran = TRUE]]

Unmount ==
    /\ mounted
    /\ Apply(Destroyed(Cleanup([World EXCEPT !.mounted = FALSE])))

SetDisabled(b) ==
    /\ mounted /\ variant = "disableable" /\ disabled # b
    /\ Apply(Commit([World EXCEPT !.disabled = b]))

LoadSettles(outcome) ==
    /\ ff.inFlight > 0
    /\ Apply(Commit(loadSettled(World, outcome)))

StartRecording ==
    /\ mounted
    /\ GuardError(World) = NoError => FreeSessions(World) # {}
    /\ Apply(startRecording(World))

StopRecording ==
    /\ mounted
    /\ Apply(stopRecording(World))

PauseRecording ==
    /\ mounted
    /\ Apply(pauseRecording(World))

ResumeRecording ==
    /\ mounted
    /\ Apply(resumeRecording(World))

DeviceGranted(r, supported) ==
    /\ recorders[r].acquiring
    /\ Apply(StreamAcquired(World, r, supported))

DeviceDenied(r, error) ==
    /\ recorders[r].acquiring
    /\ Apply(StreamDenied(World, r, error))

DeviceCapture(r) ==
    /\ recorders[r].mr = "recording"
    /\ recorders[r].size = "empty"
    /\ Apply([World EXCEPT !.recorders[r].size = "nonempty"])

DataAvailable(r) ==
    /\ recorders[r].dataPending
    /\ Apply(ondataavailable(World, r))

TranscoderSettles(r, outcome) ==
    /\ recorders[r].proc = "transcoding"
    /\ Apply(transcoderSettled(World, r, outcome))

TranscribeSettles(r, outcome) ==
    /\ recorders[r].proc = "transcribing"
    /\ Apply(transcribeSettled(World, r, outcome))

Next ==
    \/ \E strict \in BOOLEAN : Mount(strict)
    \/ Unmount
    \/ \E b \in BOOLEAN : SetDisabled(b)
    \/ \E o \in {"ok"} \cup EngineErrors : LoadSettles(o)
    \/ StartRecording
    \/ StopRecording
    \/ PauseRecording
    \/ ResumeRecording
    \/ \E r \in SessionIds, s \in SupportedSets : DeviceGranted(r, s)
    \/ \E r \in SessionIds, e \in DeviceErrors : DeviceDenied(r, e)
    \/ \E r \in SessionIds : DeviceCapture(r)
    \/ \E r \in SessionIds : DataAvailable(r)
    \/ \E r \in SessionIds, o \in {"ok"} \cup TranscoderErrors : TranscoderSettles(r, o)
    \/ \E r \in SessionIds, o \in Transcripts \cup TranscribeErrors : TranscribeSettles(r, o)

Spec == Init /\ [][Next]_vars

\* ------------------------------------- the time-sliced recorder's steps
NextChunk(empty) == IF empty THEN <<>> ELSE <<Len(chunked.captured) + 1>>

ChunkInit ==
    /\ variant = "plain"
    /\ mounted = FALSE
    /\ disabled = FALSE
    /\ optDisabled = FALSE
    /\ hook = InitialHook
    /\ ff = InitialFFmpeg
    /\ adapterRef = 0
    /\ adapters = [a \in AdapterIds |-> NewAdapter]
    /\ recorders = [r \in SessionIds |-> NewRecorder]
    /\ effDeps = NoDeps
    /\ chunked = NewChunked
    /\ conv = NewConversion("webm", <<"audio/webm">>)

\* AudioRecorder.start() after getUserMedia: mediaRecorder.start(5000)
ChunkStarted ==
    /\ chunked.mr = "null"
    /\ chunked' = [chunked EXCEPT !.mr = "recording"]
    /\ UNCHANGED <<lifecycleVars, conv>>

\* A time slice has elapsed: the MediaRecorder emits a chunk.
SliceElapsed(empty) ==
    /\ chunked.mr = "recording"
    /\ Len(chunked.captured) < MaxChunks - 1
    /\ chunked' = ChunkDataAvailable(
                    [chunked EXCEPT !.captured = Append(@, NextChunk(empty))],
                    NextChunk(empty))
    /\ UNCHANGED <<lifecycleVars, conv>>

ChunkPaused ==
    /\ chunked.mr = "recording"
    /\ chunked' = [chunked EXCEPT !.mr = "paused"]
    /\ UNCHANGED <<lifecycleVars, conv>>

ChunkResumed ==
    /\ chunked.mr = "paused"
    /\ chunked' = [chunked EXCEPT !.mr = "recording"]
    /\ UNCHANGED <<lifecycleVars, conv>>

\* BaseAdapter.stop(): await currentRecorder.stop()
ChunkStopped(empty) ==
    /\ chunked.mr \in {"recording", "paused"}
    /\ chunked' = ChunkStop(chunked, NextChunk(empty))
    /\ UNCHANGED <<lifecycleVars, conv>>

\* The dataavailable event queued by MediaRecorder.stop().
FinalChunkDelivered ==
    /\ chunked.pending
    /\ chunked' = ChunkDataAvailable([chunked EXCEPT !.pending = FALSE],
                                     chunked.captured[Len(chunked.captured)])
    /\ UNCHANGED <<lifecycleVars, conv>>

ChunkNext ==
    \/ ChunkStarted
    \/ \E empty \in BOOLEAN : SliceElapsed(empty)
    \/ ChunkPaused
    \/ ChunkResumed
    \/ \E empty \in BOOLEAN : ChunkStopped(empty)
    \/ FinalChunkDelivered

ChunkSpec == ChunkInit /\ [][ChunkNext]_vars

\* --------------------------------------------- convertAudioToMono's steps
ConvInit ==
    /\ variant = "plain"
    /\ mounted = FALSE
    /\ disabled = FALSE
    /\ optDisabled = FALSE
    /\ hook = InitialHook
    /\ ff = InitialFFmpeg
    /\ adapterRef = 0
    /\ adapters = [a \in AdapterIds |-> NewAdapter]
    /\ recorders = [r \in SessionIds |-> NewRecorder]
    /\ effDeps = NoDeps
    /\ chunked = NewChunked
    /\ conv \in {NewConversion(i, t) : i \in Implementations, t \in BlobTypes}

\* validateAudioFormat(file), before the try block.
ConvValidate ==
    /\ conv.pc = "called"
    /\ conv' = IF validateAudioFormat(conv.type)
               THEN [conv EXCEPT !.pc = "validated"]
               ELSE [conv EXCEPT !.pc = "rejected",
                                 !.result = <<UnsupportedMessage>> \o conv.type]
    /\ UNCHANGED <<lifecycleVars, chunked>>

\* await ffmpeg.writeFile('input', fileData)
ConvWriteInput(outcome) ==
    /\ conv.pc = "validated"
    /\ conv' = IF outcome = "ok"
               THEN [writeFile(conv, "input") EXCEPT !.pc = "written"]
               ELSE CallRejected(conv, EngineCall("writeFile", "input", <<>>), outcome)
    /\ UNCHANGED <<lifecycleVars, chunked>>

\* await ffmpeg.exec(args)
ConvExec(outcome) ==
    /\ conv.pc = "written"
    /\ conv' = IF outcome = "ok"
               THEN [exec(conv, ConversionArgs(conv.impl)) EXCEPT !.pc = "converted"]
               ELSE CallRejected(conv, EngineCall("exec", "", ConversionArgs(conv.impl)),
                                 outcome)
    /\ UNCHANGED <<lifecycleVars, chunked>>

\* const data = await ffmpeg.readFile(...)
ConvReadOutput(outcome) ==
    /\ conv.pc = "converted"
    /\ conv' = IF outcome = "ok"
               THEN [readFile(conv, OutputFile(conv.impl)) EXCEPT !.pc = "read"]
               ELSE CallRejected(conv, EngineCall("readFile", OutputFile(conv.impl), <<>>),
                                 outcome)
    /\ UNCHANGED <<lifecycleVars, chunked>>

\* await ffmpeg.deleteFile('input')
ConvDeleteInput(outcome) ==
    /\ conv.pc = "read"
    /\ conv' = IF outcome = "ok"
               THEN [deleteFile(conv, "input") EXCEPT !.pc = "inputDeleted"]
               ELSE CallRejected(conv, EngineCall("deleteFile", "input", <<>>), outcome)
    /\ UNCHANGED <<lifecycleVars, chunked>>

\* await ffmpeg.deleteFile(...) of the output, then the blob is returned.
ConvDeleteOutput(outcome) ==
    /\ conv.pc = "inputDeleted"
    /\ conv' = IF outcome = "ok"
               THEN [deleteFile(conv, OutputFile(conv.impl)) EXCEPT
                        !.pc = "resolved", !.result = OutputType(conv.impl)]
               ELSE CallRejected(conv, EngineCall("deleteFile", OutputFile(conv.impl), <<>>),
                                 outcome)
    /\ UNCHANGED <<lifecycleVars, chunked>>

ConvNext ==
    \/ ConvValidate
    \/ \E o \in {"ok"} \cup EngineCallErrors : ConvWriteInput(o)
    \/ \E o \in {"ok"} \cup EngineCallErrors : ConvExec(o)
    \/ \E o \in {"ok"} \cup EngineCallErrors : ConvReadOutput(o)
    \/ \E o \in {"ok"} \cup EngineCallErrors : ConvDeleteInput(o)
    \/ \E o \in {"ok"} \cup EngineCallErrors : ConvDeleteOutput(o)

ConvSpec == ConvInit /\ [][ConvNext]_vars

\* Every effect has run for the values of the last render.
EffectsSettled == mounted => effDeps = Deps(World)

TypeOK ==
    /\ adapterRef \in 0..MaxAdapters
    /\ \A a \in AdapterIds : adapters[a].recorder \in 0..MaxSessions
    /\ \A r \in SessionIds : recorders[r].size \in {"empty", "nonempty"}
    /\ ff.inFlight \in 0..2

\* ------------------------------------------------------------- claims
Count(seq, e) == Cardinality({i \in DOMAIN seq : seq[i] = e})

Outcomes(r) == Count(recorders[r].log, "onResult") + Count(recorders[r].log, "onError")

\* Nothing of session r is pending or in flight any more.
Quiescent(r) ==
    /\ ~recorders[r].acquiring
    /\ ~recorders[r].dataPending
    /\ recorders[r].proc \in {"none", "settled"}

\* Session r had a running MediaRecorder and was stopped by BaseAdapter.stop().
StoppedByStop(r) == recorders[r].created /\ recorders[r].stopVia = "stop"

\* Session r is the only session, and it runs on the adapter the mounted,
\* enabled controller currently holds.
SoleCycle(r) ==
    /\ mounted /\ ~disabled
    /\ adapterRef # 0 /\ recorders[r].owner = adapterRef
    /\ adapters[adapterRef].isMounted
    /\ \A q \in SessionIds : recorders[q].created => q = r

\* C1: every session that was started successfully and then stopped with
\* stop() has, once nothing of it is pending any more, delivered exactly one
\* terminal outcome (one onResult or one onError), whatever was captured.
C1_ExactlyOneOutcome ==
    \A r \in SessionIds : StoppedByStop(r) /\ Quiescent(r) => Outcomes(r) = 1

\* C2: a full startRecording() -> stopRecording() cycle in which nothing
\* failed ends, once nothing is pending, with isRecording = FALSE,
\* isProcessing = FALSE and the transcript the transcription function gave.
C2_CycleEndsWithTranscript ==
    \A r \in SessionIds :
        (SoleCycle(r) /\ StoppedByStop(r) /\ Quiescent(r)
            /\ Count(recorders[r].log, "onError") = 0)
        => (~hook.isRecording /\ ~hook.isProcessing /\ hook.transcript \in Transcripts)

\* C3: when the transcription function of a session stopped with stop()
\* rejects with an Error of message M while the controller's callbacks are
\* live, the step that settles it leaves error = M and isProcessing = FALSE.
C3_TranscriptionErrorSurfaced ==
    [][\A r \in SessionIds :
        (/\ recorders[r].proc = "transcribing"
         /\ recorders'[r].proc = "settled"
         /\ recorders'[r].thrown \in TranscribeErrors \ {NonError}
         /\ recorders[r].stopVia = "stop"
         /\ mounted /\ CallbackActive(World, recorders[r].owner))
        => (hook'.error = recorders'[r].thrown /\ ~hook'.isProcessing)]_vars

C3_Witness ==
    \E r \in SessionIds :
        /\ SoleCycle(r) /\ StoppedByStop(r)
        /\ recorders[r].proc = "settled"
        /\ recorders[r].thrown = "boom"
        /\ recorders[r].log = <<"onStart", "transcoder", "transcribe", "onError", "onEnd">>
        /\ hook.error = "boom" /\ ~hook.isProcessing

\* C4: a session has at most one failure, and each failure is reported by
\* exactly one errorCallback followed by exactly one endCallback.
C4_ErrorOnceThenEndOnce ==
    \A r \in SessionIds :
        LET log == recorders[r].log
        IN /\ Count(log, "onError") <= 1
           /\ Count(log, "onError") = 1 =>
                 /\ Count(log, "onEnd") = 1
                 /\ \E i \in DOMAIN log : i < Len(log) /\ log[i] = "onError"
                                                       /\ log[i + 1] = "onEnd"

\* C5: a session stopped with zero captured bytes delivers, once nothing of
\* it is pending, an onResult and leaves the controller's transcript '',
\* and never invokes the transcoder or the transcription function.
C5_EmptyRecordingYieldsEmptyResult ==
    \A r \in SessionIds :
        (StoppedByStop(r) /\ recorders[r].size = "empty")
        => /\ Count(recorders[r].log, "transcoder") = 0
           /\ Count(recorders[r].log, "transcribe") = 0
           /\ (Quiescent(r) /\ SoleCycle(r)) =>
                 /\ Count(recorders[r].log, "onResult") = 1
                 /\ hook.transcript = ""

\* The guard condition of highest priority that holds, as its message, in
\* the order (a) disabled, (b) engine load failed, (c) engine not loaded,
\* (d) adapter not initialized; NoError when none holds.
PriorityMessage ==
    IF variant = "disableable" /\ optDisabled THEN DisabledMessage
    ELSE IF ff.error # NoError THEN ff.error
    ELSE IF ~(ff.loaded /\ ff.ffmpeg) THEN NotLoadedMessage
    ELSE IF adapterRef = 0 \/ ~hook.isInitialized
         THEN (IF variant = "plain" THEN NotInitializedPlain
               ELSE NotInitializedDisableable)
    ELSE NoError

\* C6: a startRecording() issued while some guard condition holds starts no
\* session (adapter.start() is not invoked) and rejects with the message of
\* the highest-priority condition that holds.
C6_GuardPriority ==
    (StartEnabled /\ PriorityMessage # NoError)
        => /\ AfterStart.recorders = recorders
           /\ AfterStart.adapters = adapters
           /\ StartOutcome = [outcome |-> "rejected", error |-> PriorityMessage]

C6_Witness ==
    /\ variant = "disableable" /\ mounted /\ optDisabled
    /\ ff.error # NoError /\ ~ff.loaded /\ adapterRef = 0 /\ ff.inFlight = 0
    /\ StartOutcome = [outcome |-> "rejected", error |-> DisabledMessage]

EngineFailed == mounted /\ ~optDisabled /\ ff.error # NoError /\ ~ff.loaded

SessionBusy(r) ==
    /\ recorders[r].created
    /\ \/ recorders[r].mr \in {"recording", "paused"}
       \/ recorders[r].dataPending
       \/ recorders[r].proc \in {"transcoding", "transcribing"}

\* C9: a startRecording() issued while a session is active or stopping is
\* rejected and starts no second recorder or session.
C9_NoConcurrentStart ==
    (StartEnabled /\ \E r \in SessionIds : SessionBusy(r))
        => /\ AfterStart.recorders = recorders
           /\ StartOutcome.outcome = "rejected"

\* C10: at most one capture device handle is held at any time by a running
\* (recording or paused) MediaRecorder.
C10_AtMostOneDeviceHeld ==
    Cardinality({r \in SessionIds : recorders[r].held
                    /\ recorders[r].mr \in {"recording", "paused"}}) <= 1

\* Adapter a holds no recorder: it is idle.
AdapterIdle(a) == adapters[a].recorder = 0

\* C11: no device handle acquired by a session is still unreleased while
\* the adapter that started the session is idle.
C11_NoLeakedDevice ==
    \A r \in SessionIds :
        recorders[r].held => ~AdapterIdle(recorders[r].owner)

\* Session r had a running MediaRecorder and was stopped by BaseAdapter.abort().
Aborted(r) == recorders[r].created /\ recorders[r].stopVia = "abort"

\* A step of session r's own pipeline: its dataavailable event, or the
\* settling of its transcoder or of its transcription call.
PipelineStep(r) ==
    \/ DataAvailable(r)
    \/ \E o \in {"ok"} \cup TranscoderErrors : TranscoderSettles(r, o)
    \/ \E o \in Transcripts \cup TranscribeErrors : TranscribeSettles(r, o)

\* C12: a session aborted while it was recording holds no device, no
\* data-available event is delivered to the adapter for it afterwards (its
\* pipeline never starts and none of its callbacks fire), and no step of the
\* session changes the controller's transcript or error.
C12_AbortSilencesSession ==
    /\ [](\A r \in SessionIds : Aborted(r) => ~recorders[r].held)
    /\ [][\A r \in SessionIds : Aborted(r) =>
            /\ recorders'[r].log = recorders[r].log
            /\ recorders'[r].proc = recorders[r].proc]_vars
    /\ [][\A r \in SessionIds : (Aborted(r) /\ PipelineStep(r)) =>
            /\ hook'.transcript = hook.transcript
            /\ hook'.error = hook.error]_vars

\* C13: a session stopped by abort() holds no device, its onEnd has fired,
\* and no onResult is ever emitted for it.
C13_AbortFiresEndOnly ==
    \A r \in SessionIds :
        Aborted(r) => /\ ~recorders[r].held
                      /\ Count(recorders[r].log, "onEnd") >= 1
                      /\ Count(recorders[r].log, "onResult") = 0

\* The recorder of the adapter the controller holds (0 when it holds no
\* adapter or the adapter no recorder), and the state of its MediaRecorder.
CurrentRecorder == IF adapterRef = 0 THEN 0 ELSE adapters[adapterRef].recorder

SessionState ==
    IF CurrentRecorder = 0 THEN "none" ELSE recorders[CurrentRecorder].mr

\* C14: pauseRecording() while the controller's session is not recording,
\* and resumeRecording() while it is not paused (no adapter and no session
\* included), change nothing: no recorder, no adapter, no field of the
\* controller state, and nothing is rejected.
C14_PauseResumeNoOps ==
    /\ (mounted /\ SessionState # "recording") => pauseRecording(World) = World
    /\ (mounted /\ SessionState # "paused") => resumeRecording(World) = World

C14_Witness ==
    /\ mounted /\ SessionState = "paused"
    /\ hook.isRecording /\ hook.error = NoError
    /\ \E r \in SessionIds : r # CurrentRecorder /\ recorders[r].mr = "inactive"

\* The adapters that were constructed and neither aborted nor dropped.
LiveAdapters == {a \in AdapterIds : adapters[a].created /\ adapters[a].live}

\* React re-invoking the initialization effect for the current render: the
\* cleanup of the previous run, then the effect.
ReFired(w) == initializeAdapter(Cleanup(w), Deps(w))

\* C15: at most one adapter is live at any time, and re-firing the
\* initialization effect while the controller holds an initialized adapter
\* constructs nothing: the controller keeps the adapter it has.
C15_SingleAdapter ==
    /\ Cardinality(LiveAdapters) <= 1
    /\ (mounted /\ adapterRef # 0 /\ hook.isInitialized /\ FreeAdapters(World) # {})
        => ReFired(World).adapterRef = adapterRef

\* C16: at most one engine load is in flight at any time.
C16_SingleLoadInFlight == ff.inFlight <= 1

\* C17: an unmount of a controller that holds an adapter and is not disabled
\* aborts that adapter (it is no longer live, it drops its recorder, and a
\* session it was capturing is stopped by the abort and releases the device)
\* and clears the reference; an unmount of a disabled controller leaves the
\* reference cleared and aborts nothing.
C17_UnmountAborts ==
    [][/\ (mounted /\ ~mounted' /\ adapterRef # 0 /\ ~optDisabled /\ Unmount) =>
            /\ adapterRef' = 0
            /\ ~adapters'[adapterRef].live
            /\ adapters'[adapterRef].recorder = 0
            /\ (SessionState \in {"recording", "paused"}) =>
                  /\ recorders'[CurrentRecorder].stopVia = "abort"
                  /\ recorders'[CurrentRecorder].mr = "inactive"
                  /\ ~recorders'[CurrentRecorder].held
       /\ (mounted /\ ~mounted' /\ optDisabled /\ Unmount) =>
            (adapterRef' = 0 /\ recorders' = recorders
                /\ \A a \in AdapterIds : adapters'[a].live = adapters[a].live)]_vars

C17_Witness ==
    /\ ~mounted /\ effDeps.ran /\ adapterRef = 0 /\ LiveAdapters = {}
    /\ variant = "disableable"
    /\ \E r \in SessionIds : Aborted(r) /\ ~recorders[r].held
                                /\ recorders[r].log = <<"onStart">>

\* The disabled flag is in effect on a mounted controller.
DisabledInEffect == mounted /\ variant = "disableable" /\ optDisabled

NothingInFlight ==
    \A r \in SessionIds : ~recorders[r].acquiring /\ ~SessionBusy(r)

\* C19: stopRecording() without an adapter changes nothing, and isStopping
\* is FALSE whenever no stopRecording() call is running and no session or
\* processing remains in flight.
C19_StoppingCleared ==
    /\ [][(StopRecording /\ adapterRef = 0) =>
            (hook' = hook /\ recorders' = recorders /\ adapters' = adapters)]_vars
    /\ []((mounted /\ NothingInFlight) => ~hook.isStopping)

\* The step in which the start of session r fails: the device is refused,
\* or it is granted and no MIME type is supported.
StartFailureStep(r) ==
    \/ \E e \in DeviceErrors : DeviceDenied(r, e)
    \/ DeviceGranted(r, {})

\* The step in which the transcoder or the transcription of session r fails.
PipelineFailureStep(r) ==
    \/ \E o \in TranscoderErrors : TranscoderSettles(r, o)
    \/ \E o \in TranscribeErrors : TranscribeSettles(r, o)

\* C20: the step in which a failure is reported to a mounted controller
\* (a start failure while the disabled flag is not in effect, a transcoder
\* or transcription failure while the callbacks of the session's adapter
\* are live) ends with isRecording = FALSE, isProcessing = FALSE and a
\* non-null error.
C20_FailureState ==
    [][\A r \in SessionIds :
        (\/ /\ mounted /\ ~DisabledInEffect
            /\ recorders[r].acquiring /\ ~recorders'[r].acquiring
            /\ StartFailureStep(r)
         \/ /\ mounted
            /\ recorders[r].proc # "settled" /\ recorders'[r].proc = "settled"
            /\ CallbackActive(World, recorders[r].owner)
            /\ PipelineFailureStep(r))
        => (/\ ~hook'.isRecording
            /\ ~hook'.isProcessing /\ ~ExposedIsProcessing'
            /\ hook'.error # NoError /\ ExposedError' # NoError)]_vars

C20_Witness ==
    \E r \in SessionIds :
        /\ SoleCycle(r) /\ StoppedByStop(r)
        /\ recorders[r].log = <<"onStart", "transcoder", "onError", "onEnd">>
        /\ hook.error \in TranscoderErrors
        /\ ~hook.isRecording /\ ~hook.isProcessing

\* C21: stopRecording(), pauseRecording() and resumeRecording() never
\* reject or throw, whatever the state and whatever fails underneath: a
\* stopRecording() whose recorder fails to stop settles without a rejection
\* and reports the failure through the error field only.
C21_ControlOpsNeverReject ==
    /\ mounted => /\ stopRecording(World).lastStop.outcome # "rejected"
                  /\ pauseRecording(World).lastStop.outcome # "rejected"
                  /\ resumeRecording(World).lastStop.outcome # "rejected"
    /\ StopCanFail => \A e \in StopErrors :
            /\ AfterStopFailure(e).lastStop.outcome # "rejected"
            /\ AfterStopFailure(e).hook.error = e

\* The error field useSTT returns after a step that leaves world w.
ExposedErrorIn(w) ==
    IF variant = "disableable" /\ w.optDisabled THEN NoError
    ELSE IF w.hook.error # NoError THEN w.hook.error ELSE w.ff.error

\* C22: a startRecording() that rejects with E leaves the error field the
\* controller returns equal to E, for a guard rejection (the call rejects at
\* once) and for a failure of adapter.start() (the device is refused, or no
\* MIME type is supported) alike.
C22_RejectionSetsError ==
    /\ []((StartEnabled /\ StartOutcome.outcome = "rejected")
            => ExposedErrorIn(AfterStart) = StartOutcome.error)
    /\ [][\A r \in SessionIds :
            (/\ mounted
             /\ recorders[r].acquiring /\ ~recorders'[r].acquiring
             /\ StartFailureStep(r))
            => ExposedError' = recorders'[r].thrown]_vars

\* The engine has not finished loading and no load has failed, on a mounted
\* controller.
PreLoad == mounted /\ ~ff.loaded /\ ff.error = NoError

\* C23 as stated: before the engine has finished loading (no load failure)
\* the controller returns isInitialized = FALSE, isRecording = FALSE,
\* transcript = '' and error = null.
C23_PreLoadState ==
    PreLoad => /\ ~ExposedIsInitialized
               /\ ~hook.isRecording
               /\ hook.transcript = ""
               /\ ExposedError = NoError

\* C23 amended: the mount leaves isInitialized = FALSE, isRecording = FALSE,
\* transcript = '' and error = null, and before the engine has finished
\* loading the first three stay so; error stays null except that a
\* startRecording() rejected in that period has set it to the
\* engine-not-loaded error (plain variant: its guards throw inside the try
\* block).
C23_PreLoadAmended ==
    /\ [](PreLoad => /\ ~ExposedIsInitialized
                     /\ ~hook.isRecording
                     /\ hook.transcript = ""
                     /\ adapterRef = 0
                     /\ ExposedError \in {NoError, NotLoadedMessage}
                     /\ variant = "disableable" => ExposedError = NoError)
    /\ [][(~mounted /\ mounted') => (PreLoad' /\ ExposedError' = NoError)]_vars
    /\ [][(PreLoad /\ PreLoad' /\ ExposedError = NoError /\ ExposedError' # NoError)
            => (StartRecording /\ StartOutcome.error = NotLoadedMessage)]_vars

C23_Witness ==
    /\ PreLoad /\ variant = "plain" /\ ff.inFlight > 0
    /\ ExposedError = NotLoadedMessage
    /\ ~ExposedIsInitialized /\ ~hook.isRecording /\ hook.transcript = ""

\* The format the adapter is documented to pass to the transcription
\* function as it is ("already in WebM format": no conversion).
PassThroughFormat == "audio/webm"

\* C24: the transcoder is not invoked for a session whose final blob already
\* has the adapter's normalized format; such a blob goes to the
\* transcription function unconverted.
C24_SkipTranscodeOnMatch ==
    \A r \in SessionIds :
        recorders[r].mime = PassThroughFormat
            => Count(recorders[r].log, "transcoder") = 0

\* The session of the time-sliced recorder has been stopped and its last
\* chunk delivered.
ChunkSessionOver == chunked.mr = "inactive" /\ ~chunked.pending

\* C25: once a session is over, the audio passed downstream is one blob,
\* the concatenation in order of the chunks the session captured.
C25_OneConcatenatedBlob ==
    ChunkSessionOver =>
        (Concat(chunked.captured) # <<>>
            => chunked.delivered = <<Concat(chunked.captured)>>)

\* C26: whenever the controller reports isRecording = TRUE, the adapter it
\* holds owns a recorder that holds the device and whose MediaRecorder is
\* recording or paused.
C26_RecordingMeansCapturing ==
    (mounted /\ hook.isRecording)
        => /\ CurrentRecorder # 0
           /\ recorders[CurrentRecorder].held
           /\ recorders[CurrentRecorder].mr \in {"recording", "paused"}

\* C27: when the stop() the adapter awaits has resolved (the session was
\* stopped by BaseAdapter.stop()), the session's final audio has been
\* delivered already: no dataavailable event of it is still outstanding.
C27_FinalChunkBeforeStopResolves ==
    \A r \in SessionIds : StoppedByStop(r) => ~recorders[r].dataPending

\* The device of session r was refused.
DeviceRefused(r) == recorders[r].created /\ recorders[r].thrown \in DeviceErrors

\* C28: a session whose device acquisition failed has delivered no onStart
\* (so isRecording was never set to TRUE for it).
C28_StartOnlyOnSuccess ==
    \A r \in SessionIds :
        DeviceRefused(r) => Count(recorders[r].log, "onStart") = 0

\* The processing of session r's recording has completed, with a result or
\* with a failure.
ProcessingCompleted(r) == recorders[r].created /\ recorders[r].proc = "settled"

AfterDenial(r, e) == StreamDenied(World, r, e)

ProcessAudioCalls == Len(chunked.delivered)

\* C31: the pipeline of a session, and with it the transcription function,
\* is entered at most once, never once per chunk.
C31_TranscribeAtMostOnce == ProcessAudioCalls <= 1

\* The transcoder of session r has failed.
TranscoderFailed(r) == recorders[r].created /\ recorders[r].thrown \in TranscoderErrors

\* C32: in a session's log a transcription call comes after the transcoder
\* call, is made only when the transcoder has not failed, and receives the
\* converted blob; a session whose transcoder failed has no transcription
\* call and one onError, and the step in which the transcoder fails leaves
\* the controller's error equal to the transcoder's message (callbacks of
\* the session's adapter live).
C32_TranscribeAfterTranscoder ==
    /\ [](\A r \in SessionIds :
            LET log == recorders[r].log
            IN /\ Count(log, "transcribe") >= 1 =>
                    /\ \E i, j \in DOMAIN log :
                          i < j /\ log[i] = "transcoder" /\ log[j] = "transcribe"
                    /\ ~TranscoderFailed(r)
                    /\ recorders[r].sent = ConvertedType
                    /\ recorders[r].sent # recorders[r].mime
               /\ TranscoderFailed(r) =>
                    /\ Count(log, "transcribe") = 0
                    /\ recorders[r].sent = ""
                    /\ Count(log, "onError") = 1)
    /\ [][\A r \in SessionIds :
            (/\ recorders[r].proc = "transcoding"
             /\ recorders'[r].proc = "settled"
             /\ mounted /\ CallbackActive(World, recorders[r].owner))
            => (/\ TranscoderFailed(r)'
                /\ hook'.error = recorders'[r].thrown)]_vars

C32_Witness ==
    \E r, q \in SessionIds :
        /\ TranscoderFailed(r)
        /\ recorders[r].log = <<"onStart", "transcoder", "onError", "onEnd">>
        /\ recorders[r].sent = ""
        /\ mounted /\ hook.error = "conversion failed"
        /\ recorders[q].proc = "transcribing"
        /\ recorders[q].sent = ConvertedType
        /\ recorders[q].log = <<"onStart", "transcoder", "transcribe">>

\* The adapters constructed so far.
Constructed == {a \in AdapterIds : adapters[a].created}

\* C33: on a mounted controller that is and stays enabled, the step in which
\* the engine load succeeds constructs exactly one adapter (the effects
\* re-fire inside that step until nothing changes), and no later step
\* constructs another one as long as the engine stays loaded without error.
C33_OneAdapterPerInitialization ==
    [][/\ (mounted /\ mounted' /\ ~disabled /\ ~disabled'
            /\ ~ff.loaded /\ ff'.loaded /\ ff'.error = NoError)
          => Cardinality(Constructed') = Cardinality(Constructed) + 1
       /\ (mounted /\ mounted' /\ ~disabled /\ ~disabled'
            /\ ff.loaded /\ ff.error = NoError /\ ff'.error = NoError)
          => Constructed' = Constructed]_vars

\* The engine is loaded and the controller is mounted and enabled.
ReadyToInitialize == mounted /\ ~disabled /\ ff.loaded

\* The controller reports initialized and holds a live adapter.
Initialized ==
    hook.isInitialized /\ adapterRef # 0 /\ adapters[adapterRef].live

\* C34: from every state in which the engine is loaded and the controller is
\* mounted and enabled (also after a disable followed by a re-enable), the
\* controller reaches a state with isInitialized = true and a live adapter,
\* unless it is unmounted or disabled first.  No fairness is assumed: the
\* effects that initialize run inside the commit of the step that makes the
\* controller ready, so the property has to hold even if nothing else ever
\* happens.
C34_EventuallyInitialized ==
    ReadyToInitialize ~> (Initialized \/ ~mounted \/ disabled)

C34_Witness ==
    /\ variant = "disableable" /\ ReadyToInitialize /\ Initialized
    /\ Cardinality(Constructed) >= 3
    /\ \E a \in Constructed : a # adapterRef /\ ~adapters[a].live

\* The transcription call of session r settles in this step.
TranscriptionSettles(r) ==
    recorders[r].proc = "transcribing" /\ recorders'[r].proc = "settled"

\* The state fields a session's callbacks write.
SessionFields == {"transcript", "error", "isRecording", "isProcessing", "isStopping"}

\* C35: when the transcription call of a session settles (result or error)
\* on a controller that was unmounted or disabled while the call was in
\* flight, none of transcript, error, isRecording, isProcessing and
\* isStopping changes.
C35_LateSettlementIsSilent ==
    [][\A r \in SessionIds :
          ((~mounted \/ disabled) /\ TranscriptionSettles(r))
          => \A f \in SessionFields : hook'[f] = hook[f]]_vars

C35_Witness ==
    /\ mounted /\ disabled
    /\ hook.transcript = "" /\ hook.error = NoError /\ ~hook.isProcessing
    /\ \E r \in SessionIds :
          /\ recorders[r].proc = "settled"
          /\ Count(recorders[r].log, "onResult") = 1
    /\ \E q \in SessionIds :
          /\ recorders[q].proc = "settled"
          /\ recorders[q].thrown \in TranscribeErrors
          /\ Count(recorders[q].log, "onError") = 1

\* Session r is capturing: its device is held and its MediaRecorder is
\* recording or paused.
Capturing(r) ==
    recorders[r].held /\ recorders[r].mr \in {"recording", "paused"}

\* C36: while a mounted controller has a capturing session, its state is not
\* the idle projection: isRecording and isProcessing are not both false.
C36_CapturingIsNotIdle ==
    (mounted /\ \E r \in SessionIds : Capturing(r))
    => (hook.isRecording \/ hook.isProcessing)

\* Session r's start() is suspended in getUserMedia and its adapter has been
\* stopped or aborted meanwhile: the adapter references no recorder.
StoppedWhileAcquiring(r) ==
    /\ recorders[r].created /\ recorders[r].acquiring
    /\ adapters[recorders[r].owner].recorder = 0

\* C37: when the device acquisition of a session completes after stop() or
\* abort() was invoked during it, no device is left held by a recorder the
\* adapter cannot stop: a device the session holds afterwards belongs to the
\* recorder its adapter references.
C37_NoCaptureAfterEarlyStop ==
    [][\A r \in SessionIds :
          (StoppedWhileAcquiring(r) /\ ~recorders'[r].acquiring)
          => (recorders'[r].held
                => adapters'[recorders[r].owner].recorder = r)]_vars

ResultDelivered(r) ==
    /\ recorders[r].created
    /\ Count(recorders'[r].log, "onResult") = Count(recorders[r].log, "onResult") + 1
    /\ CallbackActive(World, recorders[r].owner)

\* C39: on a controller that stays mounted, transcript changes only in a
\* step that delivers an onResult event, and then to that result's
\* transcript; every other step (start, stop, pause, resume, abort by
\* cleanup or disable, onStart, onError, onEnd) leaves it unchanged.
C39_TranscriptOnlyByResult ==
    [][(mounted /\ mounted' /\ hook'.transcript # hook.transcript)
          => \E r \in SessionIds : ResultDelivered(r)]_vars

C39_Witness ==
    /\ mounted /\ hook.transcript \in Transcripts
    /\ hook.error = "boom" /\ ~hook.isRecording /\ ~hook.isProcessing
    /\ \E r, q \in SessionIds :
          /\ Count(recorders[r].log, "onResult") = 1
          /\ recorders[q].thrown = "boom"
          /\ Count(recorders[q].log, "onStart") = 1
          /\ Count(recorders[q].log, "onError") = 1

\* The engine calls the claim lists, in its order.
ExpectedCalls ==
    << EngineCall("writeFile", "input", <<>>),
       EngineCall("exec", "", <<"-i", "input", "-ar", "16000", "-ac", "1",
                                "-c:a", "pcm_s16le", "output.wav">>),
       EngineCall("readFile", "output.wav", <<>>),
       EngineCall("deleteFile", "input", <<>>),
       EngineCall("deleteFile", "output.wav", <<>>) >>

\* C40: a convertAudioToMono call that resolved has made exactly the engine
\* calls writeFile('input'), exec([-i, input, -ar, 16000, -ac, 1, -c:a,
\* pcm_s16le, output.wav]), readFile('output.wav'), deleteFile('input'),
\* deleteFile('output.wav'), in this order, and has left no file in the
\* engine's file system.
C40_MonoConversionSteps ==
    conv.pc = "resolved" => (conv.calls = ExpectedCalls /\ conv.files = {})

====
